---- MODULE Spec2Model ----
(***************************************************************************)
(* The queue-backed persistence wrapper of the QR print client             *)
(* (ThreadSafeDatabaseManager, src/gui_qr_print_service.py) and the        *)
(* threads that call it.  One worker thread owns the sqlite connection;    *)
(* callers put (op_type, query, params) on operation_queue and take the    *)
(* next (status, result) from the one shared result_queue.                 *)
(*                                                                         *)
(* Ghost state (not in the program, kept to state the properties): every   *)
(* request carries a request id `rid` and the thread that issued it, every *)
(* result carries the rid of the request it was produced for, every row    *)
(* carries the rid of the insert that created it, and `call`, `started`,   *)
(* `finished`, `executors` log what happened.                              *)
(***************************************************************************)
EXTENDS Integers, Sequences, FiniteSets, TLC

\* ------------------------------------------------------------------ bounds
\* Background threads that call the manager beside the interactive thread.
NThreads == 1
\* Requests put on operation_queue in one run (the constructor's init_db included).
MaxCalls == 3
\* Test scenario: concurrent test threads, and inserts per thread.
TestThreads == 2
TestInserts == 1
\* Ordering scenario: calls the threads beside the scripted one make.
MaxOther == 1
\* Dispatcher scenarios: fetch+print threads started in one run.
MaxJobs == 2
\* Scan scenario: longest text in the scan field.
MaxQrLen == 3
\* Store scenario: calls made on the manager after its construction.
MaxStoreCalls == 3
\* scans and reprints started in the dispatcher scenario
MaxDispatchCalls == 2
\* History scenario: handlers the operator starts after construction.
MaxHistoryCalls == 3
\* Window scenario: printer types the operator may add to the two defaults.
MaxCustomTypes == 1
\* Window scenario: status resets armed (root.after ids issued).
MaxTimers == 3

\* ------------------------------------------------------------- identities
Main == 0
Background == 1..NThreads
Callers == {Main} \cup Background
TestCallers == {Main} \cup (1..TestThreads)
\* Threads started for download_and_print by the dispatcher scenarios.
Printers == 1..MaxJobs
AllCallers == Callers \cup TestCallers \cup Printers

NoRid == 0
NoUrl == <<0, 0>>
\* A url is <<tag, i>>: the part a LIKE '%thread<tag>%' pattern matches, and a serial.
Urls == {<<1, 1>>}

\* ----------------------------------------------------------------- values
NoQuery == [sql |-> "None", url |-> NoUrl, id |-> 0]
\* INSERT INTO print_history (url, print_type, qr_data, status) VALUES (?, ?, ?, ?)
InsertJobQuery(u, ptype, qr) ==
    [sql |-> "INSERT", url |-> u, id |-> 0, print_type |-> ptype, qr_data |-> qr]
InsertQuery(u) == InsertJobQuery(u, "label", <<"label", u>>)
UpdateLikeQuery(tag) == [sql |-> "UPDATE_LIKE", url |-> <<tag, 0>>, id |-> 0]
CountLikeQuery(tag) == [sql |-> "COUNT_LIKE", url |-> <<tag, 0>>, id |-> 0]
CountAllQuery == [sql |-> "COUNT_ALL", url |-> NoUrl, id |-> 0]
DeleteIdQuery(i) == [sql |-> "DELETE_ID", url |-> NoUrl, id |-> i]
MalformedQuery == [sql |-> "MALFORMED", url |-> NoUrl, id |-> 0]
SampleQuery == [sql |-> "SAMPLE", url |-> NoUrl, id |-> 0]
DeleteAllQuery == [sql |-> "DELETE_ALL", url |-> NoUrl, id |-> 0]
\* SELECT url, print_type, qr_data FROM print_history WHERE id = ?
SelectOneQuery(i) == [sql |-> "SELECT_ONE_ID", url |-> NoUrl, id |-> i]
\* SELECT id, print_type, url, status, timestamp FROM print_history
\* ORDER BY timestamp DESC LIMIT 100
HistoryQuery == [sql |-> "SELECT_HISTORY", url |-> NoUrl, id |-> 0]
\* UPDATE print_history SET status = ? WHERE url = ? AND id = (SELECT id FROM
\* print_history WHERE url = ? ORDER BY timestamp DESC LIMIT 1)
UpdateStatusQuery(u, st) ==
    [sql |-> "UPDATE_STATUS", url |-> u, id |-> 0, status |-> st]

\* The shutdown signal close() puts on the queue (Python's None).
Sentinel == [rid |-> NoRid, thread |-> Main, op_type |-> "None", query |-> NoQuery]
NoOperation == [rid |-> NoRid, thread |-> Main, op_type |-> "idle", query |-> NoQuery]

Payload(k, n) == [kind |-> k, n |-> n]
NoPayload == Payload("none", 0)
\* The rows a select fetched, or the one row of a select_one.
RowsPayload(k, rows) == [kind |-> k, n |-> Cardinality(rows), rows |-> rows]
NoResult == [status |-> "none", result |-> NoPayload, rid |-> NoRid]

\* Text is a sequence of characters.
EmptyText == <<>>

\* No fetch+print has been started on a thread.
NoJob ==
    [state |-> "none", url |-> EmptyText, print_type |-> "none", scan |-> NoRid,
     status |-> "none"]
\* printer_types of the configuration: type id -> prefix
PrinterTypes == [label |-> <<"l">>, receipt |-> <<"x">>]
\* self.status_timer = None
NoTimer == 0
\* No call of the configuration or of the status line has been made.
NoWindowCall ==
    [name |-> "none", type_id |-> "none", auto_reset |-> FALSE, returned |-> "None"]
\* The window after create_widgets: empty scan field, 'Ready' in blue with no
\* timer, the printer types load_config leaves, nothing under way.
NoUi ==
    [entry |-> EmptyText, status |-> "ready", saving |-> NoRid, reading |-> NoRid,
     color |-> "blue", status_timer |-> NoTimer, timers |-> {}, nafter |-> 0,
     printer_types |-> PrinterTypes, last |-> NoWindowCall]

VARIABLES
    operation_queue,  \* self.operation_queue: requests, oldest first
    result_queue,     \* self.result_queue: results, oldest first
    worker,           \* the worker thread: "waiting" | "executing" | "terminated"
                      \* ("absent": the release copy has no worker)
    operation,        \* the request the worker has dequeued and is executing
    tableExists,      \* print_history has been created
    table,            \* the rows of print_history
    sequence,         \* sqlite_sequence of print_history (AUTOINCREMENT)
    manager,          \* "constructing" | "ready" | "failed" (the constructor raised)
    closed,           \* close() has put the sentinel
    pc,               \* per caller: "idle" | "waiting" (in result_queue.get); a print
                      \* thread of the release copy: "printing" | "update_<status>" | "dead"
    request,          \* per caller: rid of the call in progress
    step,             \* per caller: calls issued so far (test script position)
    nreq,             \* requests enqueued so far
    call,             \* ghost: rid -> what the call of that request did
    started,          \* ghost: rids in the order the worker dequeued them
    finished,         \* ghost: rids in the order the worker finished executing them
    executors,        \* ghost: threads that have executed a statement on the connection
    job,              \* per print thread: the fetch+print it was started for
    ui                \* the window: text of the scan field, status line (status,
                      \* color, status_timer; timers: the resets Tk has pending,
                      \* nafter: after ids issued), config["printer_types"], the
                      \* history call process_qr_input or reprint_selected is in,
                      \* and (ghost) last: the last configuration or status call

vars == <<operation_queue, result_queue, worker, operation, tableExists, table,
          sequence, manager, closed, pc, request, step, nreq, call, started,
          finished, executors, job, ui>>

storeVars == <<tableExists, table, sequence>>
workerVars == <<worker, operation, started, finished, executors>>
callerVars == <<pc, request, step, nreq, call>>
dispatchVars == <<job, ui>>

\* --------------------------------------------------------------- helpers
Range(s) == {s[i] : i \in DOMAIN s}

\* url LIKE '%thread<tag>%'
Like(url, tag) == url[1] = tag

\* ------------------------------------------------------------- the store
\* A row of print_history.  src (ghost) is the rid of the insert that made it.
\* updates (ghost) lists the statuses update_history_status has written to it.
\* timestamp is DEFAULT CURRENT_TIMESTAMP: the second in which insert r ran, kept
\* symbolic (which inserts fell into one second is settled where it is read).
Row(i, q, st, r) ==
    [id |-> i, url |-> q.url, print_type |-> q.print_type, qr_data |-> q.qr_data,
     status |-> st, src |-> r, updates |-> <<>>, timestamp |-> <<"at", r>>]

\* What sqlite hands back for one statement.  ok = FALSE: the statement raised.
SqlResult(ok, ex, tb, sq, last, cnt, fetch) ==
    [ok |-> ok, tableExists |-> ex, table |-> tb, sequence |-> sq,
     lastrowid |-> last, rowcount |-> cnt, fetch |-> fetch]

SqlError(ex, tb, sq, code) ==
    SqlResult(FALSE, ex, tb, sq, 0, 0, Payload("message", code))

\* INSERT INTO print_history (url, print_type, qr_data, status) VALUES (?, ?, ?, 'processing'):
\* id INTEGER PRIMARY KEY AUTOINCREMENT takes the next value of sqlite_sequence.
InsertRowLosesOthers(tb, row) == {row}
InsertRow(tb, row) == tb \cup {row}

\* AUTOINCREMENT: one more than the largest identifier ever assigned.
NextRowIdReusesDeleted(tb, sq) ==
    IF tb = {} THEN 1 ELSE 1 + CHOOSE i \in {r.id : r \in tb} : \A r \in tb : r.id <= i
NextRowId(tb, sq) == sq + 1

SqlInsert(q, rid, ex, tb, sq) ==
    LET newid == NextRowId(tb, sq)
    IN  SqlResult(TRUE, ex, InsertRow(tb, Row(newid, q, "processing", rid)),
                  newid, newid, 1, Payload("rows", 0))

\* UPDATE print_history SET status = 'completed' WHERE url LIKE ?
SqlUpdateLike(q, ex, tb, sq) ==
    LET hit == {r \in tb : Like(r.url, q.url[1])}
    IN  SqlResult(TRUE, ex,
                  (tb \ hit) \cup {[r EXCEPT !.status = "completed"] : r \in hit},
                  sq, 0, Cardinality(hit), Payload("rows", 0))

\* The subquery of the status update, SELECT id ... WHERE url = ? ORDER BY
\* timestamp DESC LIMIT 1.  CURRENT_TIMESTAMP counts seconds: rows with the url
\* that were inserted in one second tie, and which of the tied rows comes first
\* is not defined.  The statement with the subquery resolved to an id, for each
\* id it can give (0: no row has the url).
MostRecentResolved(q, tb) ==
    LET same == {r \in tb : r.url = q.url}
    IN  IF q.sql # "UPDATE_STATUS" \/ same = {} THEN {q}
        ELSE {[q EXCEPT !.id = r.id] : r \in same}

\* The status update of the dispatcher, the subquery resolved: the row with that
\* url and that id.
SqlUpdateStatusStampsRow(q, ex, tb, sq) ==
    LET hit == {r \in tb : r.url = q.url /\ r.id = q.id}
    IN  SqlResult(TRUE, ex,
                  (tb \ hit) \cup {[r EXCEPT !.status = q.status,
                                             !.timestamp = <<"at", 0>>] : r \in hit},
                  sq, 0, Cardinality(hit), Payload("rows", 0))
SqlUpdateStatus(q, ex, tb, sq) ==
    LET hit == {r \in tb : r.url = q.url /\ r.id = q.id}
    IN  SqlResult(TRUE, ex,
                  (tb \ hit) \cup {[r EXCEPT !.status = q.status,
                                             !.updates = Append(@, q.status)] : r \in hit},
                  sq, 0, Cardinality(hit), Payload("rows", 0))

\* DELETE FROM print_history WHERE id = ?
SqlDeleteIdMissingIsError(q, ex, tb, sq) ==
    LET hit == {r \in tb : r.id = q.id}
    IN  IF hit = {} THEN SqlError(ex, tb, sq, 3)
        ELSE SqlResult(TRUE, ex, tb \ hit, sq, 0, Cardinality(hit), Payload("rows", 0))
SqlDeleteId(q, ex, tb, sq) ==
    LET hit == {r \in tb : r.id = q.id}
    IN  SqlResult(TRUE, ex, tb \ hit, sq, 0, Cardinality(hit), Payload("rows", 0))

\* SELECT COUNT(*) FROM print_history [WHERE url LIKE ?]: one row, (n,)
SqlCount(rows, ex, tb, sq) ==
    SqlResult(TRUE, ex, tb, sq, 0, -1, Payload("count", Cardinality(rows)))

\* SELECT url, status FROM print_history LIMIT 5: at most five rows
SqlSample(ex, tb, sq) ==
    SqlResult(TRUE, ex, tb, sq, 0, -1,
              Payload("rows", IF Cardinality(tb) < 5 THEN Cardinality(tb) ELSE 5))

\* DELETE FROM print_history (sqlite_sequence keeps its value)
SqlDeleteAll(ex, tb, sq) ==
    SqlResult(TRUE, ex, {}, sq, 0, Cardinality(tb), Payload("rows", 0))

\* CREATE TABLE IF NOT EXISTS print_history (...): nothing happens when the
\* table is there.
SqlCreateTableOnce(ex, tb, sq) ==
    IF ex THEN SqlError(ex, tb, sq, 4)
    ELSE SqlResult(TRUE, TRUE, tb, sq, 0, -1, Payload("rows", 0))
SqlCreateTable(ex, tb, sq) ==
    SqlResult(TRUE, TRUE, tb, sq, 0, -1, Payload("rows", 0))

\* The columns the two reads of the application select.
ItemOf(row) == <<row.url, row.print_type, row.qr_data>>
ListedOf(row) == <<row.id, row.print_type, row.url, row.status>>

\* fetchone() of the read by identifier: the row, or None.
SqlSelectOne(q, ex, tb, sq) ==
    LET hit == {row \in tb : row.id = q.id}
    IN  SqlResult(TRUE, ex, tb, sq, 0, -1,
                  IF hit = {} THEN NoPayload
                  ELSE RowsPayload("row", {ItemOf(row) : row \in hit}))

\* fetchall() of the history read (fewer rows than its LIMIT; their order is
\* not modelled).
SqlSelectHistory(ex, tb, sq) ==
    SqlResult(TRUE, ex, tb, sq, 0, -1, RowsPayload("rows", {ListedOf(row) : row \in tb}))

\* cursor.execute(query, params) on the connection.
SqlExecute(q, rid, ex, tb, sq) ==
    CASE q.sql = "CREATE" -> SqlCreateTable(ex, tb, sq)
      [] q.sql = "MALFORMED" -> SqlError(ex, tb, sq, 1)
      [] ~ex -> SqlError(ex, tb, sq, 2)
      [] q.sql = "INSERT" -> SqlInsert(q, rid, ex, tb, sq)
      [] q.sql = "UPDATE_LIKE" -> SqlUpdateLike(q, ex, tb, sq)
      [] q.sql = "DELETE_ID" -> SqlDeleteId(q, ex, tb, sq)
      [] q.sql = "COUNT_LIKE" ->
            SqlCount({r \in tb : Like(r.url, q.url[1])}, ex, tb, sq)
      [] q.sql = "COUNT_ALL" -> SqlCount(tb, ex, tb, sq)
      [] q.sql = "SAMPLE" -> SqlSample(ex, tb, sq)
      [] q.sql = "SELECT_ONE_ID" -> SqlSelectOne(q, ex, tb, sq)
      [] q.sql = "SELECT_HISTORY" -> SqlSelectHistory(ex, tb, sq)
      [] q.sql = "UPDATE_STATUS" -> SqlUpdateStatus(q, ex, tb, sq)
      [] q.sql = "DELETE_ALL" -> SqlDeleteAll(ex, tb, sq)
      [] OTHER -> SqlError(ex, tb, sq, 1)

\* The statement the worker runs for a request: init_db ignores query and params.
StatementOf(op) ==
    IF op.op_type = "init_db"
    THEN [sql |-> "CREATE", url |-> NoUrl, id |-> 0]
    ELSE op.query

\* The (status, result) the worker puts for a request, by op_type.
ReplyOf(op, r) ==
    IF ~r.ok THEN [status |-> "error", result |-> r.fetch, rid |-> op.rid]
    ELSE [status |-> "success", rid |-> op.rid, result |->
            CASE op.op_type = "init_db" -> NoPayload
              [] op.op_type = "insert" -> Payload("rowid", r.lastrowid)
              [] op.op_type \in {"update", "delete"} -> Payload("rowcount", r.rowcount)
              [] OTHER -> r.fetch]

\* ------------------------------------------------------------ the worker
\* operation_queue.get(): queue.Queue is first in, first out.
NextOperationNewestFirst(q) == q[Len(q)]
NextOperation(q) == Head(q)

RestOfQueue(q) ==
    LET op == NextOperation(q)
        i == CHOOSE j \in DOMAIN q : q[j] = op
    IN  [k \in 1..(Len(q) - 1) |-> IF k < i THEN q[k] ELSE q[k + 1]]

\* self.result_queue.put((status, result)): once per executed request.
PutResultNotOnError(q, reply) == IF reply.status = "error" THEN q ELSE Append(q, reply)
PutResultTwice(q, reply) == Append(Append(q, reply), reply)
PutResult(q, reply) == Append(q, reply)

\* Where the worker goes after it has put a result: back to the top of its loop.
AfterReplyStopsOnError(status) == IF status = "error" THEN "terminated" ELSE "waiting"
AfterReply(status) == "waiting"

\* Where the worker goes when it dequeues the sentinel: out of the loop, to
\* conn.close() and the end of the thread.
AfterSentinelIgnored == "waiting"
AfterSentinel == "terminated"

\* operation = self.operation_queue.get(timeout=1); None breaks out of the loop
\* and closes the connection.
WorkerGet ==
    /\ worker = "waiting"
    /\ operation_queue # <<>>
    /\ LET op == NextOperation(operation_queue)
       IN  /\ operation_queue' = RestOfQueue(operation_queue)
           /\ IF op = Sentinel
              THEN /\ worker' = AfterSentinel
                   /\ UNCHANGED <<operation, started>>
              ELSE /\ worker' = "executing"
                   /\ operation' = op
                   /\ started' = Append(started, op.rid)
    /\ UNCHANGED <<dispatchVars, result_queue, storeVars, manager, closed,
                   callerVars,
                   finished, executors>>

\* queue.Empty after the one second wait: continue.
WorkerPollGivesUp ==
    /\ worker = "waiting"
    /\ operation_queue = <<>>
    /\ worker' = "terminated"
    /\ UNCHANGED <<dispatchVars, operation_queue, result_queue, storeVars, manager,
                   closed, callerVars, operation, started, finished, executors>>
WorkerPoll ==
    /\ worker = "waiting"
    /\ operation_queue = <<>>
    /\ UNCHANGED vars

\* The try block of the loop: execute, commit, put the result; an exception puts
\* ('error', str(e)) instead.
WorkerExecute ==
    /\ worker = "executing"
    /\ \E stmt \in MostRecentResolved(StatementOf(operation), table) :
          LET r == SqlExecute(stmt, operation.rid, tableExists, table, sequence)
              reply == ReplyOf(operation, r)
          IN  /\ tableExists' = r.tableExists
              /\ table' = r.table
              /\ sequence' = r.sequence
              /\ result_queue' = PutResult(result_queue, reply)
              /\ worker' = AfterReply(reply.status)
    /\ operation' = NoOperation
    /\ finished' = Append(finished, operation.rid)
    /\ executors' = executors \cup {"worker"}
    /\ UNCHANGED <<dispatchVars, operation_queue, manager, closed, callerVars,
                   started>>

\* ----------------------------------------------------------- the gateway
\* What _execute_operation does with what result_queue.get(timeout) gave it
\* (NoResult: queue.Empty).
GatewayOutcomeIgnoresStatus(res) ==
    IF res = NoResult
    THEN [outcome |-> "timeout", value |-> NoPayload]
    ELSE [outcome |-> "return", value |-> res.result]
GatewayOutcome(res) ==
    IF res = NoResult
    THEN [outcome |-> "timeout", value |-> NoPayload]
    ELSE IF res.status = "error"
         THEN [outcome |-> "dberror", value |-> res.result]
         ELSE [outcome |-> "return", value |-> res.result]

\* self.operation_queue.put((op_type, query, params))
Enqueue(t, op_type, query) ==
    /\ nreq' = nreq + 1
    /\ operation_queue' = Append(operation_queue,
          [rid |-> nreq + 1, thread |-> t, op_type |-> op_type, query |-> query])
    /\ request' = [request EXCEPT ![t] = nreq + 1]
    /\ step' = [step EXCEPT ![t] = @ + 1]
    /\ call' = call @@ ((nreq + 1) :> [thread |-> t, op_type |-> op_type,
                  query |-> query, outcome |-> "pending", taken |-> NoResult,
                  value |-> NoPayload])

\* __init__ ends with the init_db call: the manager exists when that call
\* returned, and the constructor raises what the call raised.
AfterInitAlwaysReady(outcome) == "ready"
AfterInit(outcome) == IF outcome = "return" THEN "ready" ELSE "failed"

\* The end of a call: `res` is what it took from result_queue (NoResult: nothing).
Finish(t, res) ==
    LET o == GatewayOutcome(res)
    IN  /\ call' = [call EXCEPT ![request[t]] =
              [@ EXCEPT !.outcome = o.outcome, !.taken = res, !.value = o.value]]
        /\ request' = [request EXCEPT ![t] = NoRid]
        /\ manager' = IF manager = "constructing" THEN AfterInit(o.outcome)
                      ELSE manager

\* A result was there within the timeout.
ResultAvailable(q) == q # <<>>
\* No result arrived within the timeout.
TimedOutAnyway(q) == TRUE
TimedOut(q) == q = <<>>

\* _execute_operation, first half: a thread that holds the manager submits.
Begin(t, op_type, query) ==
    /\ manager = "ready"
    /\ pc[t] = "idle"
    /\ Enqueue(t, op_type, query)
    /\ pc' = [pc EXCEPT ![t] = "waiting"]
    /\ UNCHANGED <<result_queue, storeVars, workerVars, manager, closed>>

\* The same, from a caller that is not the dispatcher.
Submit(t, op_type, query) ==
    /\ Begin(t, op_type, query)
    /\ UNCHANGED dispatchVars

\* _execute_operation, second half: result_queue.get(timeout=timeout) returns.
Receive(t) ==
    /\ pc[t] = "waiting"
    /\ ResultAvailable(result_queue)
    /\ Finish(t, Head(result_queue))
    /\ result_queue' = Tail(result_queue)
    /\ pc' = [pc EXCEPT ![t] = "idle"]
    /\ UNCHANGED <<dispatchVars, operation_queue, storeVars, workerVars,
                   closed, step, nreq>>

\* _execute_operation, second half: result_queue.get raises queue.Empty.
Timeout(t) ==
    /\ pc[t] = "waiting"
    /\ TimedOut(result_queue)
    /\ Finish(t, NoResult)
    /\ pc' = [pc EXCEPT ![t] = "idle"]
    /\ UNCHANGED <<dispatchVars, operation_queue, result_queue, storeVars,
                   workerVars, closed,
                   step, nreq>>

\* close(): put the sentinel; join(timeout=2) returns whether or not the worker ended.
Close ==
    /\ manager = "ready"
    /\ pc[Main] = "idle"
    /\ ~closed
    /\ closed' = TRUE
    /\ operation_queue' = Append(operation_queue, Sentinel)
    /\ UNCHANGED <<dispatchVars, result_queue, storeVars, workerVars, manager,
                   callerVars>>

\* ------------------------------------------------- the application's calls
\* The requests the callers of the general specification choose from.
Requests ==
    {<<"insert", InsertQuery(u)>> : u \in Urls}
    \cup {<<"insert", MalformedQuery>>,
          <<"update", UpdateLikeQuery(1)>>,
          <<"delete", DeleteIdQuery(1)>>,
          <<"select", CountAllQuery>>}

\* Any thread calls insert / update / delete / select; the interactive thread
\* makes no call after close() (on_closing destroys the window).
Call(t) ==
    /\ nreq < MaxCalls
    /\ t = Main => ~closed
    /\ \E rq \in Requests : Submit(t, rq[1], rq[2])

\* __init__: the worker is started and init_db is on the queue, the constructing
\* thread waits for its result.
InitRequest == [rid |-> 1, thread |-> Main, op_type |-> "init_db", query |-> NoQuery]

InitManager ==
    /\ operation_queue = <<InitRequest>>
    /\ result_queue = <<>>
    /\ worker = "waiting"
    /\ operation = NoOperation
    /\ tableExists = FALSE
    /\ table = {}
    /\ sequence = 0
    /\ manager = "constructing"
    /\ closed = FALSE
    /\ nreq = 1
    /\ call = (1 :> [thread |-> Main, op_type |-> "init_db", query |-> NoQuery,
                     outcome |-> "pending", taken |-> NoResult, value |-> NoPayload])
    /\ started = <<>>
    /\ finished = <<>>
    /\ executors = {}

Init ==
    /\ InitManager
    /\ pc = [t \in AllCallers |-> IF t = Main THEN "waiting" ELSE "idle"]
    /\ request = [t \in AllCallers |-> IF t = Main THEN 1 ELSE NoRid]
    /\ step = [t \in AllCallers |-> 0]
    /\ job = [t \in Printers |-> NoJob]
    /\ ui = NoUi

WorkerNext == WorkerGet \/ WorkerPoll \/ WorkerExecute

Next ==
    \/ WorkerNext
    \/ \E t \in Callers : Call(t)
    \/ \E t \in Callers : Receive(t)
    \/ \E t \in Callers : Timeout(t)
    \/ Close

Spec == Init /\ [][Next]_vars

\* ------------------------------------------- scenario: insert then update
\* One thread does what a test thread does with one url: insert(A), and when that
\* call has returned, update(A).  The other threads call whatever they like.
OrderThread == 1
OrderUrl == <<1, 1>>

\* The request of the latest call thread t has made (NoRid: none yet).
LastRequest(t) ==
    LET mine == {r \in DOMAIN call : call[r].thread = t}
    IN  IF mine = {} THEN NoRid ELSE CHOOSE r \in mine : \A r2 \in mine : r2 <= r

OrderInsert ==
    /\ step[OrderThread] = 0
    /\ Submit(OrderThread, "insert", InsertQuery(OrderUrl))

\* An exception in insert (timeout, database error) ends the script.
OrderUpdate ==
    /\ step[OrderThread] = 1
    /\ call[LastRequest(OrderThread)].outcome = "return"
    /\ Submit(OrderThread, "update", UpdateLikeQuery(OrderUrl[1]))

OtherCall(t) ==
    /\ t # OrderThread
    /\ nreq - 1 - step[OrderThread] < MaxOther
    /\ t = Main => ~closed
    /\ \E rq \in Requests : Submit(t, rq[1], rq[2])

NextOrder ==
    \/ WorkerNext
    \/ OrderInsert
    \/ OrderUpdate
    \/ \E t \in Callers : OtherCall(t)
    \/ \E t \in Callers : Receive(t)
    \/ \E t \in Callers : Timeout(t)
    \/ Close

SpecOrder == Init /\ [][NextOrder]_vars

\* ------------------------------------------------ scenario: the test program
\* src/test_thread_safety.py: TestThreads threads run test_concurrent_operations
\* on one manager; main joins them, counts the table, samples it and closes.
TestWorkers == 1..TestThreads

\* results[0][0] needs the one-row result of a COUNT(*); `for url, status in
\* sample_data` needs a list of rows.  Any other payload raises.
Usable(q, value) ==
    CASE q.sql \in {"COUNT_LIKE", "COUNT_ALL"} -> value.kind = "count"
      [] q.sql = "SAMPLE" -> value.kind = "rows"
      [] OTHER -> TRUE

\* The call of request r ended in an exception in its thread: the gateway raised,
\* or the thread could not use what the gateway returned.
Raised(r) ==
    /\ call[r].outcome # "pending"
    /\ \/ call[r].outcome # "return"
       \/ ~Usable(call[r].query, call[r].value)

ThreadRaised(t) == \E r \in DOMAIN call : r # 1 /\ call[r].thread = t /\ Raised(r)

\* test_concurrent_operations has returned (True, or False from its except).
ThreadEnded(t) ==
    /\ pc[t] = "idle"
    /\ ThreadRaised(t) \/ step[t] = TestInserts + 2

TestInsert(t) ==
    /\ step[t] < TestInserts
    /\ ~ThreadRaised(t)
    /\ Submit(t, "insert", InsertQuery(<<t, step[t] + 1>>))

TestUpdate(t) ==
    /\ step[t] = TestInserts
    /\ ~ThreadRaised(t)
    /\ Submit(t, "update", UpdateLikeQuery(t))

TestSelect(t) ==
    /\ step[t] = TestInserts + 1
    /\ ~ThreadRaised(t)
    /\ Submit(t, "select", CountLikeQuery(t))

\* main, after joining every thread.
MainCount ==
    /\ \A t \in TestWorkers : ThreadEnded(t)
    /\ step[Main] = 0
    /\ Submit(Main, "select", CountAllQuery)

MainSample ==
    /\ step[Main] = 1
    /\ ~ThreadRaised(Main)
    /\ Submit(Main, "select", SampleQuery)

MainClose ==
    /\ step[Main] = 2
    /\ ~ThreadRaised(Main)
    /\ Close

NextTest ==
    \/ WorkerNext
    \/ \E t \in TestWorkers : TestInsert(t)
    \/ \E t \in TestWorkers : TestUpdate(t)
    \/ \E t \in TestWorkers : TestSelect(t)
    \/ MainCount
    \/ MainSample
    \/ MainClose
    \/ \E t \in TestCallers : Receive(t)
    \/ \E t \in TestCallers : Timeout(t)

SpecTest == Init /\ [][NextTest]_vars

\* --------------------------------------------- the release copy
\* src/release/gui_qr_print_service.py has no manager and no worker: QRPDFPrinter
\* opens self.conn on the interactive thread and every method uses it directly.
\* sqlite3 connections are opened with check_same_thread on, so a use from
\* another thread raises ProgrammingError before any statement runs.
PrintOutcomes == {"completed", "failed", "error"}

\* The interactive thread runs one statement on self.conn and commits.
DirectExecute(q, rid) ==
    LET r == SqlExecute(q, rid, tableExists, table, sequence)
    IN  /\ tableExists' = r.tableExists
        /\ table' = r.table
        /\ sequence' = r.sequence
        /\ executors' = executors \cup {"interactive"}

\* init_database, called from __init__.
ReleaseInitDatabase ==
    /\ manager = "constructing"
    /\ DirectExecute([sql |-> "CREATE", url |-> NoUrl, id |-> 0], NoRid)
    /\ manager' = "ready"
    /\ UNCHANGED <<dispatchVars, operation_queue, result_queue, worker,
                   operation, started,
                   finished, closed, callerVars>>

\* process_qr_input with a valid code: save_to_history inserts the row, then the
\* print thread is started.
ReleaseScan(t, u) ==
    /\ manager = "ready"
    /\ ~closed
    /\ nreq < MaxCalls
    /\ pc[t] \in {"idle", "dead"}
    /\ DirectExecute(InsertQuery(u), nreq + 1)
    /\ nreq' = nreq + 1
    /\ pc' = [pc EXCEPT ![t] = "printing"]
    /\ UNCHANGED <<dispatchVars, operation_queue, result_queue, worker,
                   operation, started,
                   finished, manager, closed, request, step, call>>

\* download_and_print up to its call of update_history_status: printed, not
\* printed, or an exception on the way.
ReleasePrint(t) ==
    /\ pc[t] = "printing"
    /\ \E o \in PrintOutcomes :
          pc' = [pc EXCEPT ![t] = IF o = "completed" THEN "update_completed"
                                  ELSE IF o = "failed" THEN "update_failed"
                                  ELSE "update_error"]
    /\ UNCHANGED <<dispatchVars, operation_queue, result_queue, storeVars,
                   workerVars, manager,
                   closed, request, step, nreq, call>>

\* update_history_status on the print thread: self.conn.cursor() raises, no
\* statement runs.  Raised in the try block, the except block calls it again
\* with 'error'; raised there, the thread ends.
ReleaseUpdate(t) ==
    /\ pc[t] \in {"update_completed", "update_failed", "update_error"}
    /\ pc' = [pc EXCEPT ![t] = IF @ = "update_error" THEN "dead" ELSE "update_error"]
    /\ UNCHANGED <<dispatchVars, operation_queue, result_queue, storeVars,
                   workerVars, manager,
                   closed, request, step, nreq, call>>

\* delete_selected on a listed row, confirmed.
ReleaseDelete(i) ==
    /\ manager = "ready"
    /\ ~closed
    /\ \E row \in table : row.id = i
    /\ DirectExecute(DeleteIdQuery(i), NoRid)
    /\ UNCHANGED <<dispatchVars, operation_queue, result_queue, worker,
                   operation, started,
                   finished, manager, closed, callerVars>>

\* clear_history, confirmed.
ReleaseClear ==
    /\ manager = "ready"
    /\ ~closed
    /\ DirectExecute(DeleteAllQuery, NoRid)
    /\ UNCHANGED <<dispatchVars, operation_queue, result_queue, worker,
                   operation, started,
                   finished, manager, closed, callerVars>>

\* on_closing: self.conn.close(), the window is destroyed.
ReleaseClose ==
    /\ manager = "ready"
    /\ ~closed
    /\ closed' = TRUE
    /\ UNCHANGED <<dispatchVars, operation_queue, result_queue, storeVars,
                   workerVars, manager,
                   callerVars>>

InitRelease ==
    /\ operation_queue = <<>>
    /\ result_queue = <<>>
    /\ worker = "absent"
    /\ operation = NoOperation
    /\ tableExists = FALSE
    /\ table = {}
    /\ sequence = 0
    /\ manager = "constructing"
    /\ closed = FALSE
    /\ pc = [t \in AllCallers |-> "idle"]
    /\ request = [t \in AllCallers |-> NoRid]
    /\ step = [t \in AllCallers |-> 0]
    /\ job = [t \in Printers |-> NoJob]
    /\ ui = NoUi
    /\ nreq = 0
    /\ call = <<>>
    /\ started = <<>>
    /\ finished = <<>>
    /\ executors = {}

NextRelease ==
    \/ ReleaseInitDatabase
    \/ \E t \in Background : \E u \in Urls : ReleaseScan(t, u)
    \/ \E t \in Background : ReleasePrint(t)
    \/ \E t \in Background : ReleaseUpdate(t)
    \/ \E i \in 1..MaxCalls : ReleaseDelete(i)
    \/ ReleaseClear
    \/ ReleaseClose

SpecRelease == InitRelease /\ [][NextRelease]_vars

\* ------------------------------------------------- scenario: the store
\* The interactive thread works on the history: it inserts, updates, deletes by
\* identifier, reads one row by identifier, reads the list, and the init
\* operation is run again on the existing database.
StoreIds == 1..2

StoreRequests ==
    {<<"insert", InsertQuery(u)>> : u \in Urls}
    \cup {<<"delete", DeleteIdQuery(i)>> : i \in StoreIds}
    \cup {<<"select_one", SelectOneQuery(i)>> : i \in StoreIds}
    \cup {<<"update", UpdateLikeQuery(1)>>, <<"init_db", NoQuery>>,
          <<"select", HistoryQuery>>}

StoreCall ==
    /\ nreq - 1 < MaxStoreCalls
    /\ \E rq \in StoreRequests : Submit(Main, rq[1], rq[2])

NextStore ==
    \/ WorkerNext
    \/ StoreCall
    \/ Receive(Main)
    \/ Timeout(Main)

SpecStore == Init /\ [][NextStore]_vars

\* ------------------------------------------------------- the dispatcher
\* QRPDFPrinter: process_qr_input, save_to_history, download_and_print,
\* update_history_status, reprint_selected.
Alphabet == {"l", "L", "x", ":", " "}
Whitespace == {" "}
\* settings.qr_separator
Separator == ":"

\* str.strip()
RECURSIVE StripLeft(_)
StripLeft(s) ==
    IF s # <<>> /\ Head(s) \in Whitespace THEN StripLeft(Tail(s)) ELSE s
RECURSIVE StripRight(_)
StripRight(s) ==
    IF s # <<>> /\ s[Len(s)] \in Whitespace
    THEN StripRight(SubSeq(s, 1, Len(s) - 1))
    ELSE s
Strip(s) == StripRight(StripLeft(s))

\* str.lower()
Lower(s) == [i \in DOMAIN s |-> IF s[i] = "L" THEN "l" ELSE s[i]]

\* qr_data.split(separator, 1), for a text that contains the separator
SplitOnce(s) ==
    LET i == CHOOSE k \in DOMAIN s :
                 s[k] = Separator /\ \A j \in 1..(k - 1) : s[j] # Separator
    IN  <<SubSeq(s, 1, i - 1), SubSeq(s, i + 1, Len(s))>>

\* get_printer_type_by_prefix: the type id, or "none" (None)
GetPrinterTypeAcceptsAny(prefix) == "label"
GetPrinterTypeByPrefix(prefix) ==
    IF \E id \in DOMAIN PrinterTypes : PrinterTypes[id] = prefix
    THEN CHOOSE id \in DOMAIN PrinterTypes : PrinterTypes[id] = prefix
    ELSE "none"

\* What process_qr_input makes of the text of the scan field.
ParseQr(text) ==
    LET qr == Strip(text)
        none == [outcome |-> "empty", url |-> EmptyText, print_type |-> "none",
                 qr_data |-> qr]
    IN  IF qr = <<>> THEN none
        ELSE IF \E i \in DOMAIN qr : qr[i] = Separator
        THEN LET parts == SplitOnce(qr)
                 type == GetPrinterTypeByPrefix(Lower(parts[1]))
             IN  IF type # "none"
                 THEN [outcome |-> "job", url |-> parts[2], print_type |-> type,
                       qr_data |-> qr]
                 ELSE [none EXCEPT !.outcome = "unknown_prefix"]
        ELSE [none EXCEPT !.outcome = "invalid_format"]

\* The interactive thread is in none of its multi-step handlers.
DispatcherIdle ==
    /\ manager = "ready"
    /\ ~closed
    /\ pc[Main] = "idle"
    /\ ui.saving = NoRid
    /\ ui.reading = NoRid

\* process_qr_input up to the insert of save_to_history; for a text that does
\* not parse only the status line changes.
ProcessQrInput(text) ==
    /\ DispatcherIdle
    /\ \E t \in Printers : job[t].state = "none"
    /\ LET p == ParseQr(text)
       IN  IF p.outcome = "job"
           THEN /\ Begin(Main, "insert", InsertJobQuery(p.url, p.print_type, p.qr_data))
                /\ ui' = [ui EXCEPT !.entry = text, !.saving = nreq + 1]
                /\ job' = job
           ELSE /\ ui' = [ui EXCEPT !.entry = text, !.status = p.outcome]
                /\ UNCHANGED <<operation_queue, result_queue, storeVars, workerVars,
                               manager, closed, callerVars, job>>

\* process_qr_input after save_to_history, which logs an exception of the insert
\* and returns: the fetch+print thread is started.
StartPrint(t) ==
    /\ ui.saving # NoRid
    /\ call[ui.saving].outcome # "pending"
    /\ job[t].state = "none"
    /\ job' = [job EXCEPT ![t] =
          [state |-> "printing", url |-> call[ui.saving].query.url,
           print_type |-> call[ui.saving].query.print_type, scan |-> ui.saving,
           status |-> "none"]]
    /\ ui' = [ui EXCEPT !.saving = NoRid, !.status = "processing"]
    /\ UNCHANGED <<operation_queue, result_queue, storeVars, workerVars, manager,
                   closed, callerVars>>

\* reprint_selected up to the select_one of get_selected_item, for a listed row.
ReprintSelected(i) ==
    /\ DispatcherIdle
    /\ \E t \in Printers : job[t].state = "none"
    /\ i \in 1..sequence
    /\ Begin(Main, "select_one", SelectOneQuery(i))
    /\ ui' = [ui EXCEPT !.reading = nreq + 1]
    /\ job' = job

\* reprint_selected after get_selected_item: with an item, the fetch+print
\* thread is started for its url; no record is created.
StartReprint(t) ==
    /\ ui.reading # NoRid
    /\ call[ui.reading].outcome # "pending"
    /\ job[t].state = "none"
    /\ LET c == call[ui.reading]
       IN  IF c.outcome = "return" /\ c.value.kind = "row"
           THEN LET item == CHOOSE it \in c.value.rows : TRUE
                IN  /\ job' = [job EXCEPT ![t] =
                          [state |-> "printing", url |-> item[1],
                           print_type |-> item[2], scan |-> NoRid, status |-> "none"]]
                    /\ ui' = [ui EXCEPT !.reading = NoRid, !.status = "reprinting"]
           ELSE /\ job' = job
                /\ ui' = [ui EXCEPT !.reading = NoRid]
    /\ UNCHANGED <<operation_queue, result_queue, storeVars, workerVars, manager,
                   closed, callerVars>>

\* download_and_print: printed, not printed or an exception on the way, and the
\* one call of update_history_status that follows (which catches what the
\* update raises).
PrintOutcome(t, o) ==
    /\ job[t].state = "printing"
    /\ Begin(t, "update", UpdateStatusQuery(job[t].url, o))
    /\ job' = [job EXCEPT ![t] = [@ EXCEPT !.state = "updating", !.status = o]]
    /\ ui' = ui

\* The codes scanned in the dispatcher scenario.
ScanInputs == {<<"l", ":", "x">>, <<"l", ":", "l">>, <<"x">>}

\* The operator's actions, while the scenario's budget of calls lasts.
DispatchScan ==
    /\ nreq - 1 < MaxDispatchCalls
    /\ \E qr \in ScanInputs : ProcessQrInput(qr)
DispatchReprint ==
    /\ nreq - 1 < MaxDispatchCalls
    /\ \E i \in StoreIds : ReprintSelected(i)

NextDispatch ==
    \/ WorkerNext
    \/ DispatchScan
    \/ \E t \in Printers : StartPrint(t)
    \/ DispatchReprint
    \/ \E t \in Printers : StartReprint(t)
    \/ \E t \in Printers : \E o \in PrintOutcomes : PrintOutcome(t, o)
    \/ \E t \in {Main} \cup Printers : Receive(t)
    \/ \E t \in {Main} \cup Printers : Timeout(t)

SpecDispatch == Init /\ [][NextDispatch]_vars

\* The same with every thread running on: the worker takes and executes what is
\* queued, a thread that was asked for is started, a fetch+print run comes to
\* its outcome, and a waiting call gets its result or its timeout.
FairDispatch ==
    /\ SpecDispatch
    /\ WF_vars(WorkerGet)
    /\ WF_vars(WorkerExecute)
    /\ \A t \in Printers : WF_vars(StartPrint(t))
    /\ \A t \in Printers : WF_vars(\E o \in PrintOutcomes : PrintOutcome(t, o))
    /\ \A t \in {Main} \cup Printers : WF_vars(Receive(t) \/ Timeout(t))

\* ------------------------------------------- scenario: the history tab
\* get_selected_item: what the reply of its select_one makes of the selection.
\* A row gives the item; None, 0 or an empty list give None; a number or a list
\* of fewer than three rows raises inside the try and gives None as well.
HasItem(c) ==
    /\ c.outcome = "return"
    /\ \/ c.value.kind = "row"
       \/ c.value.kind = "rows" /\ c.value.n >= 3

\* The handler of the interactive thread that waits for call ui.reading.
InHandler(h) == ui.reading # NoRid /\ ui.status = h
HandlerCallEnded(h) == InHandler(h) /\ call[ui.reading].outcome # "pending"
HandlerDone == [ui EXCEPT !.reading = NoRid, !.status = "ready"]

\* delete_selected up to the select_one of get_selected_item, for the listed
\* row with tag i.
DeleteSelected(i) ==
    /\ DispatcherIdle
    /\ i \in 1..sequence
    /\ Begin(Main, "select_one", SelectOneQuery(i))
    /\ ui' = [ui EXCEPT !.reading = nreq + 1, !.status = "delete_selected"]
    /\ job' = job

\* delete_selected after get_selected_item: with an item and the operator's
\* yes, DELETE ... WHERE id = item['id'], the tag of the selected row.
DeleteConfirmed(yes) ==
    /\ HandlerCallEnded("delete_selected")
    /\ IF HasItem(call[ui.reading]) /\ yes
       THEN /\ Begin(Main, "delete", DeleteIdQuery(call[ui.reading].query.id))
            /\ ui' = [ui EXCEPT !.reading = nreq + 1, !.status = "deleting"]
       ELSE /\ ui' = HandlerDone
            /\ UNCHANGED <<operation_queue, result_queue, storeVars, workerVars,
                           manager, closed, callerVars>>
    /\ job' = job

\* clear_history with the operator's yes: DELETE FROM print_history.
ClearHistory ==
    /\ DispatcherIdle
    /\ Begin(Main, "delete", DeleteAllQuery)
    /\ ui' = [ui EXCEPT !.reading = nreq + 1, !.status = "deleting"]
    /\ job' = job

\* delete_selected / clear_history after the delete: refresh_history when it
\* returned, the log line only when it raised.
DeleteDone ==
    /\ HandlerCallEnded("deleting")
    /\ IF call[ui.reading].outcome = "return"
       THEN /\ Begin(Main, "select", HistoryQuery)
            /\ ui' = [ui EXCEPT !.reading = nreq + 1, !.status = "refreshing"]
       ELSE /\ ui' = HandlerDone
            /\ UNCHANGED <<operation_queue, result_queue, storeVars, workerVars,
                           manager, closed, callerVars>>
    /\ job' = job

\* refresh_history, run by the event loop after save_to_history and
\* update_history_status asked for it (root.after(0, self.refresh_history)).
RefreshHistory ==
    /\ DispatcherIdle
    /\ Begin(Main, "select", HistoryQuery)
    /\ ui' = [ui EXCEPT !.reading = nreq + 1, !.status = "refreshing"]
    /\ job' = job

\* What refresh_history leaves in the tree, emptied before the select, for the
\* way its select call ended: 'for row in rows' inserts the fetched rows; a
\* call that raised, and a value that is no list of rows (None, a number, the
\* tuple of a select_one), end in the except branch with the tree still empty.
TreeRows(c) ==
    IF c.outcome = "return" /\ c.value.kind = "rows" THEN c.value.rows ELSE {}

\* refresh_history after its select: the tree is filled with
\* TreeRows(call[ui.reading]), or the exception logged.
RefreshDone ==
    /\ HandlerCallEnded("refreshing")
    /\ ui' = HandlerDone
    /\ UNCHANGED <<operation_queue, result_queue, storeVars, workerVars, manager,
                   closed, callerVars, job>>

\* download_and_print returns after its update call (finally: the temporary
\* file is removed) and the thread ends; another thread can be started.
PrintEnds(t) ==
    /\ job[t].state = "updating"
    /\ pc[t] = "idle"
    /\ job' = [job EXCEPT ![t] = NoJob]
    /\ UNCHANGED <<operation_queue, result_queue, storeVars, workerVars, manager,
                   closed, callerVars, ui>>

\* The code scanned in the history scenario.
HistoryCode == <<"l", ":", "x">>
HistoryHandlers == {"delete_selected", "deleting", "refreshing"}
\* The scenario follows one fetch+print thread.
HistoryPrinter == 1

\* The operator starts a handler, while the scenario's budget lasts.
HistoryStart ==
    /\ nreq - 1 < MaxHistoryCalls
    /\ \/ job[HistoryPrinter].state = "none" /\ ProcessQrInput(HistoryCode)
       \/ \E i \in StoreIds :
             job[HistoryPrinter].state = "none" /\ ReprintSelected(i)
       \/ \E i \in StoreIds : DeleteSelected(i)
       \/ ClearHistory
       \/ RefreshHistory

NextHistory ==
    \/ WorkerNext
    \/ HistoryStart
    \/ StartPrint(HistoryPrinter)
    \/ ui.status \notin HistoryHandlers /\ StartReprint(HistoryPrinter)
    \/ \E yes \in BOOLEAN : DeleteConfirmed(yes)
    \/ DeleteDone
    \/ RefreshDone
    \/ \E o \in PrintOutcomes : PrintOutcome(HistoryPrinter, o)
    \/ PrintEnds(HistoryPrinter)
    \/ \E t \in {Main, HistoryPrinter} : Receive(t)
    \/ \E t \in {Main, HistoryPrinter} : Timeout(t)

SpecHistory == Init /\ [][NextHistory]_vars

\* ------------------------------------------- scenario: one fetch+print run
\* download_and_print step by step.  The thread is not the thread of the event
\* loop, and it calls into the toolkit all the same: root.after(...) along the
\* way and, in the handler of update_history_status, self.log(...), which
\* writes to the log widget.  Such a call goes through or raises (the toolkit
\* is not thread safe; RuntimeError when the event loop is not running, as
\* after on_closing has destroyed the window under a running thread).
RunThread == 1

\* The try block up to its end: printed or not printed, and the update call of
\* update_history_status(url, 'completed' / 'failed').
BodyOutcomes == {"completed", "failed"}
RunBody(t, o) ==
    /\ o \in BodyOutcomes
    /\ PrintOutcome(t, o)

\* The try block raises: requests.get, raise_for_status, the content-type
\* check, the file, or one of its root.after calls.  Control is in the handler
\* `except Exception as e`.
RunRaises(t) ==
    /\ job[t].state = "printing"
    /\ job' = [job EXCEPT ![t] = [@ EXCEPT !.state = "handling"]]
    /\ UNCHANGED <<operation_queue, result_queue, storeVars, workerVars, manager,
                   closed, callerVars, ui>>

\* The handler: two root.after calls, then update_history_status(url, 'error').
\* raises: a root.after call raised, and the exception leaves the thread.
HandleError(t, raises) ==
    /\ job[t].state = "handling"
    /\ IF raises
       THEN /\ job' = [job EXCEPT ![t] = [@ EXCEPT !.state = "died"]]
            /\ UNCHANGED <<operation_queue, result_queue, storeVars, workerVars,
                           manager, closed, callerVars>>
       ELSE /\ Begin(t, "update", UpdateStatusQuery(job[t].url, "error"))
            /\ job' = [job EXCEPT ![t] =
                          [@ EXCEPT !.state = "updating_error", !.status = "error"]]
    /\ ui' = ui

\* update_history_status after its update call: root.after(0, refresh_history)
\* when it returned, and in `except Exception` self.log(...).  escapes: the
\* handler's log call raised, so the exception leaves update_history_status;
\* from the try block it lands in the handler of download_and_print, from
\* that handler it leaves the thread.
UpdateEnds(t, escapes) ==
    /\ job[t].state \in {"updating", "updating_error"}
    /\ pc[t] = "idle"
    /\ job' = [job EXCEPT ![t] = [@ EXCEPT !.state =
                  IF ~escapes THEN "done"
                  ELSE IF job[t].state = "updating" THEN "handling" ELSE "died"]]
    /\ UNCHANGED <<operation_queue, result_queue, storeVars, workerVars, manager,
                   closed, callerVars, ui>>

\* One code is scanned, for the one thread the scenario follows.
RunScan ==
    /\ job[RunThread].state = "none"
    /\ ProcessQrInput(HistoryCode)

NextRun ==
    \/ WorkerNext
    \/ RunScan
    \/ StartPrint(RunThread)
    \/ \E o \in BodyOutcomes : RunBody(RunThread, o)
    \/ RunRaises(RunThread)
    \/ \E raises \in BOOLEAN : HandleError(RunThread, raises)
    \/ \E escapes \in BOOLEAN : UpdateEnds(RunThread, escapes)
    \/ \E t \in {Main, RunThread} : Receive(t)
    \/ \E t \in {Main, RunThread} : Timeout(t)

SpecRun == Init /\ [][NextRun]_vars

\* ------------------------------------------- scenario: one scanned text
\* What the scan field can hold.
QrInputs == UNION {[1..n -> Alphabet] : n \in 0..MaxQrLen}

\* The field holds any text when the application is up, and is processed once.
InitScan ==
    /\ InitManager
    /\ pc = [t \in AllCallers |-> IF t = Main THEN "waiting" ELSE "idle"]
    /\ request = [t \in AllCallers |-> IF t = Main THEN 1 ELSE NoRid]
    /\ step = [t \in AllCallers |-> 0]
    /\ job = [t \in Printers |-> NoJob]
    /\ ui \in {[NoUi EXCEPT !.entry = text] : text \in QrInputs}

ScanEntry ==
    /\ ui.status = "ready"
    /\ ProcessQrInput(ui.entry)

NextScan ==
    \/ WorkerNext
    \/ ScanEntry
    \/ \E t \in Printers : StartPrint(t)
    \/ \E t \in Printers : \E o \in PrintOutcomes : PrintOutcome(t, o)
    \/ \E t \in {Main} \cup Printers : Receive(t)
    \/ \E t \in {Main} \cup Printers : Timeout(t)

SpecScan == InitScan /\ [][NextScan]_vars

\* ----------------- scenario: the configuration tab and the status line
\* Everything here runs on the interactive thread; the fetch+print thread hands
\* its status messages to the event loop (root.after(0, ...)).
CustomNames == <<"custom1", "custom2", "custom3">>
CustomTypes == {CustomNames[i] : i \in 1..MaxCustomTypes}
TypeIds == DOMAIN PrinterTypes \cup CustomTypes
\* The prefix a new type is given: one already in use, or a new one.
CustomPrefixes == {<<"l">>, <<"c">>}
StatusColors == {"blue", "green", "orange", "red"}
StatusMessages == {"info", "error"}

\* add_printer_type: self.config["printer_types"][type_id] = {...}
AddPrinterType(types, type_id, prefix) ==
    [id \in DOMAIN types \cup {type_id} |-> IF id = type_id THEN prefix ELSE types[id]]

\* remove_printer_type: the condition of its if, and what it returns and leaves.
CanRemoveAny(types, type_id) == type_id \in DOMAIN types
CanRemove(types, type_id) ==
    type_id \in DOMAIN types /\ Cardinality(DOMAIN types) > 1
RemovePrinterType(types, type_id) ==
    IF CanRemove(types, type_id)
    THEN [returned |-> "True",
          types |-> [id \in DOMAIN types \ {type_id} |-> types[id]]]
    ELSE [returned |-> "False", types |-> types]

\* root.after_cancel(id): Tk drops the pending callback.
CancelTimerKeeps(pending, id) == pending
CancelTimer(pending, id) == pending \ {id}

\* update_status(message, color, auto_reset) on window u.
UpdateStatus(u, message, color, auto_reset) ==
    LET cancelled ==
            IF u.status_timer # NoTimer
            THEN [u EXCEPT !.timers = CancelTimer(@, u.status_timer),
                           !.status_timer = NoTimer]
            ELSE u
        shown == [cancelled EXCEPT !.status = message, !.color = color,
                      !.last = [name |-> "update_status", type_id |-> "none",
                                auto_reset |-> auto_reset, returned |-> "None"]]
    IN  IF auto_reset /\ color \in {"red", "orange"}
        THEN [shown EXCEPT !.status_timer = u.nafter + 1,
                           !.timers = @ \cup {u.nafter + 1},
                           !.nafter = @ + 1]
        ELSE shown

\* What a handler of the window leaves alone.
windowFrame ==
    <<operation_queue, result_queue, storeVars, workerVars, manager, closed,
      callerVars, job>>
\* The window exists and the event loop is free to run a handler.
WindowReady == manager = "ready" /\ ~closed /\ pc[Main] = "idle"

\* A call of add_printer_type.
AddPrinterTypeCall(type_id, prefix) ==
    /\ WindowReady
    /\ ui' = [ui EXCEPT !.printer_types = AddPrinterType(@, type_id, prefix),
                        !.last = [name |-> "add_printer_type", type_id |-> type_id,
                                  auto_reset |-> FALSE, returned |-> "None"]]
    /\ UNCHANGED windowFrame

\* A call of remove_printer_type.
RemovePrinterTypeCall(type_id) ==
    /\ WindowReady
    /\ LET r == RemovePrinterType(ui.printer_types, type_id)
       IN  ui' = [ui EXCEPT !.printer_types = r.types,
                            !.last = [name |-> "remove_printer_type",
                                      type_id |-> type_id, auto_reset |-> FALSE,
                                      returned |-> r.returned]]
    /\ UNCHANGED windowFrame

\* add_new_printer_type with the dialog's result: a new id is added, a known
\* one is refused in red.
AddNewPrinterType(type_id, prefix) ==
    /\ WindowReady
    /\ ui.nafter < MaxTimers
    /\ IF type_id \notin DOMAIN ui.printer_types
       THEN ui' = [ui EXCEPT !.printer_types = AddPrinterType(@, type_id, prefix),
                        !.last = [name |-> "add_printer_type", type_id |-> type_id,
                                  auto_reset |-> FALSE, returned |-> "None"]]
       ELSE ui' = UpdateStatus(ui, "error", "red", TRUE)
    /\ UNCHANGED windowFrame

\* remove_selected_printer_type: refused in red with one type left; otherwise
\* the dialog offers the configured types (choice "none": it was cancelled).
RemoveSelectedPrinterType(choice) ==
    /\ WindowReady
    /\ ui.nafter < MaxTimers
    /\ choice \in DOMAIN ui.printer_types \cup {"none"}
    /\ IF Cardinality(DOMAIN ui.printer_types) <= 1
       THEN ui' = UpdateStatus(ui, "error", "red", TRUE)
       ELSE IF choice = "none"
       THEN ui' = ui
       ELSE LET r == RemovePrinterType(ui.printer_types, choice)
                removed == [ui EXCEPT !.printer_types = r.types,
                                !.last = [name |-> "remove_printer_type",
                                          type_id |-> choice, auto_reset |-> FALSE,
                                          returned |-> r.returned]]
            IN  IF r.returned = "True"
                THEN ui' = removed
                ELSE ui' = UpdateStatus(removed, "error", "red", TRUE)
    /\ UNCHANGED windowFrame

\* Any other handler's call of update_status.
StatusCall(message, color, auto_reset) ==
    /\ WindowReady
    /\ ui.nafter < MaxTimers
    /\ ui' = UpdateStatus(ui, message, color, auto_reset)
    /\ UNCHANGED windowFrame

\* The event loop runs pending reset k: _reset_status_to_ready.
ResetStatusToReady(k) ==
    /\ WindowReady
    /\ k \in ui.timers
    /\ ui' = [ui EXCEPT !.timers = @ \ {k}, !.status = "ready", !.color = "blue",
                        !.status_timer = NoTimer,
                        !.last = [name |-> "_reset_status_to_ready",
                                  type_id |-> "none", auto_reset |-> FALSE,
                                  returned |-> "None"]]
    /\ UNCHANGED windowFrame

NextWindow ==
    \/ WorkerNext
    \/ Receive(Main)
    \/ Timeout(Main)
    \/ \E id \in TypeIds : \E prefix \in CustomPrefixes : AddPrinterTypeCall(id, prefix)
    \/ \E id \in TypeIds : RemovePrinterTypeCall(id)
    \/ \E id \in TypeIds : \E prefix \in CustomPrefixes : AddNewPrinterType(id, prefix)
    \/ \E choice \in TypeIds \cup {"none"} : RemoveSelectedPrinterType(choice)
    \/ \E m \in StatusMessages : \E c \in StatusColors : \E a \in BOOLEAN :
          StatusCall(m, c, a)
    \/ \E k \in 1..MaxTimers : ResetStatusToReady(k)

SpecWindow == Init /\ [][NextWindow]_vars

\* ------------------------------------------------------------ properties
\* Calls that have ended, and those that ended with a result in hand.
Ended == {r \in DOMAIN call : call[r].outcome # "pending"}
Answered == {r \in DOMAIN call : call[r].outcome \in {"return", "dberror"}}
TimedOutCalls == {r \in DOMAIN call : call[r].outcome = "timeout"}
\* Requests whose statement sqlite rejects.
Failing == {r \in DOMAIN call : call[r].query.sql = "MALFORMED"}
\* Requests that insert one row when executed.
GoodInserts ==
    {r \in DOMAIN call : call[r].op_type = "insert" /\ call[r].query.sql = "INSERT"}

\* C1: every call that returns or raises a database error does so on the result
\* the worker produced for the request this same call enqueued.
C1_OwnResult == \A r \in Answered : call[r].taken.rid = r

\* C2 (P4): after a call has timed out, every later call still ends on the result
\* of its own request, and the reply of a timed-out call is delivered to no call.
C2_NoLateReply ==
    \A r \in Answered :
        /\ (\E r0 \in TimedOutCalls : r0 < r) => call[r].taken.rid = r
        /\ call[r].taken.rid \notin TimedOutCalls

\* C3 (P3): the database error of a failing request is raised in the call that
\* submitted it and in no other, and a well-formed request submitted after a
\* failing one returns success with its own payload.
C3_ErrorIsolated ==
    \A r \in Answered :
        /\ call[r].outcome = "dberror" => call[r].taken.rid = r /\ r \in Failing
        /\ (r \notin Failing /\ \E f \in Failing : f < r)
              => call[r].outcome = "return" /\ call[r].taken.rid = r

\* Nothing is in flight: every call has ended and the worker has nothing to do.
Quiescent ==
    /\ Ended = DOMAIN call
    /\ worker # "executing"
    /\ worker = "waiting" => operation_queue = <<>>
\* Every call made on the manager so far was an insert (init_db aside).
OnlyInserts == \A r \in DOMAIN call : r = 1 \/ call[r].op_type = "insert"

\* C4 (P1) as claimed: at the end of concurrent inserts the table holds as many
\* rows as insert calls returned successfully to their callers.
C4_RowsAreReturnedInserts ==
    (Quiescent /\ OnlyInserts) =>
        Cardinality(table) =
            Cardinality({r \in DOMAIN call : r # 1 /\ call[r].outcome = "return"})

\* C4 (P1) amended: over concurrent inserts the rows of the table are exactly the
\* inserts the worker has executed successfully, whatever became of the call that
\* issued them: one row each, none lost, none duplicated, identifiers distinct.
C4_RowsAreExecutedInserts ==
    OnlyInserts =>
        /\ {row.src : row \in table} = GoodInserts \cap Range(finished)
        /\ Cardinality(table) = Cardinality(GoodInserts \cap Range(finished))
        /\ \A a, b \in table : a.id = b.id => a = b
C4_Witness ==
    /\ Quiescent /\ OnlyInserts
    /\ Cardinality(table) = 2
    /\ \E a, b \in table : call[a.src].thread # call[b.src].thread
    /\ TimedOutCalls # {}

\* C6: the worker executes requests in the order they were enqueued (rids count
\* the puts), one at a time: each execution ends before the next begins, and no
\* request is skipped or overtaken.
C6_FifoExecution ==
    /\ started = [i \in 1..Len(started) |-> i]
    /\ finished = [i \in 1..Len(finished) |-> i]
    /\ IF worker = "executing"
       THEN Len(started) = Len(finished) + 1 /\ operation.rid = Len(started)
       ELSE Len(started) = Len(finished)
C6_Witness ==
    /\ worker = "executing"
    /\ operation.rid = 2
    /\ Len(operation_queue) = 1
    /\ operation_queue[1].rid = 3
    /\ operation_queue[1].thread # operation.thread

\* C10: a call ends in exactly one of three ways, decided by what it took from
\* the reply queue: a timeout exactly when it took nothing, and then only when the
\* reply queue was empty; a database error carrying the worker's description when
\* the result it took has status 'error'; otherwise the payload of that result.
C10_Taken ==
    \A r \in Ended :
        LET c == call[r]
        IN  /\ c.outcome \in {"timeout", "dberror", "return"}
            /\ c.outcome = "timeout" <=> c.taken = NoResult
            /\ c.taken.status = "error" =>
                  c.outcome = "dberror" /\ c.value = c.taken.result
            /\ c.taken.status = "success" =>
                  c.outcome = "return" /\ c.value = c.taken.result
C10_EndsOnQueue ==
    \A t \in AllCallers :
        (pc[t] = "waiting" /\ pc'[t] # "waiting") =>
            LET c == call'[request[t]]
            IN  /\ c.outcome = "timeout" <=> result_queue = <<>>
                /\ c.outcome # "timeout" =>
                      c.taken = Head(result_queue) /\ result_queue' = Tail(result_queue)
C10_ThreeOutcomes == [](C10_Taken) /\ [][C10_EndsOnQueue]_vars
C10_Witness ==
    /\ \E r \in Ended : call[r].outcome = "timeout"
    /\ \E r \in Ended : call[r].outcome = "dberror"
    /\ \E r \in Ended : call[r].outcome = "return"

\* The worker is a thread of its own, always scheduled: a step it can take, it
\* eventually takes.
FairSpec == Spec /\ WF_vars(WorkerGet) /\ WF_vars(WorkerExecute)

\* Scenario: inserts that fail among inserts that succeed, from any thread.
FailureRequests ==
    {<<"insert", InsertQuery(u)>> : u \in Urls} \cup {<<"insert", MalformedQuery>>}

FailureCall(t) ==
    /\ nreq < MaxCalls
    /\ t = Main => ~closed
    /\ \E rq \in FailureRequests : Submit(t, rq[1], rq[2])

NextFailure ==
    \/ WorkerNext
    \/ \E t \in Callers : FailureCall(t)
    \/ \E t \in Callers : Receive(t)
    \/ \E t \in Callers : Timeout(t)
    \/ Close

SpecFailure ==
    Init /\ [][NextFailure]_vars /\ WF_vars(WorkerGet) /\ WF_vars(WorkerExecute)

\* Request r is on the operation queue ahead of the shutdown sentinel, if any (a
\* sentinel once put stays on the queue until the worker takes it and ends).
QueuedBeforeSentinel(r) ==
    /\ worker # "terminated"
    /\ \E i \in DOMAIN operation_queue :
          /\ operation_queue[i].rid = r
          /\ \A j \in 1..(i - 1) : operation_queue[j] # Sentinel

\* C8: a failing request never stops the worker: having put the error result it
\* is back waiting for the next request, and every request enqueued after a
\* failing one and ahead of the shutdown sentinel is eventually executed.
C8_BackToWaiting ==
    (worker = "executing" /\ operation.rid \in Failing /\ worker' # worker) =>
        /\ worker' = "waiting"
        /\ result_queue' = Append(result_queue,
              [status |-> "error", result |-> Payload("message", 1),
               rid |-> operation.rid])
C8_WorkerSurvivesFailure ==
    /\ [][C8_BackToWaiting]_vars
    /\ \A r \in 1..MaxCalls :
          (QueuedBeforeSentinel(r) /\ \E f \in Failing : f < r)
              ~> (r \in Range(finished))
C8_Witness ==
    \E f \in Failing : \E r \in Range(finished) :
        /\ f < r
        /\ f \in Range(finished)
        /\ call[r].outcome = "return"

\* The call its thread made just before the call of request r (NoRid: none).
PrecedingCall(r) ==
    LET mine == {r0 \in DOMAIN call : r0 < r /\ call[r0].thread = call[r].thread}
    IN  IF mine = {} THEN NoRid ELSE CHOOSE r0 \in mine : \A r1 \in mine : r1 <= r0
\* The identifier AUTOINCREMENT gives the row of insert request r.
RowIdOf(r) == Cardinality({g \in GoodInserts : g <= r})
\* Some request between rI and rU deletes the row rI inserts.
DeletedBetween(rI, rU) ==
    \E d \in (rI + 1)..(rU - 1) :
        call[d].op_type = "delete" /\ call[d].query.id = RowIdOf(rI)
\* The worker is about to execute an update(A) whose thread's previous call was
\* an insert(A) that returned.
UpdateAfterInsert ==
    /\ worker = "executing"
    /\ operation.op_type = "update"
    /\ PrecedingCall(operation.rid) \in GoodInserts
    /\ call[PrecedingCall(operation.rid)].outcome = "return"
    /\ Like(call[PrecedingCall(operation.rid)].query.url, operation.query.url[1])

\* C7 (P2): when a thread calls insert(A) and, after it returned, update(A), the
\* store on which the worker executes the update holds the row that insert
\* created, unless a request in between deleted that row.
C7_UpdateSeesInsertedRow ==
    UpdateAfterInsert =>
        LET rI == PrecedingCall(operation.rid)
        IN  \/ \E row \in table : row.src = rI /\ row.url = call[rI].query.url
            \/ DeletedBetween(rI, operation.rid)
C7_Witness ==
    /\ UpdateAfterInsert
    /\ operation.thread = OrderThread
    /\ \E row \in table : row.src = PrecedingCall(operation.rid)
    /\ \E d \in (PrecedingCall(operation.rid) + 1)..(operation.rid - 1) :
          call[d].thread # OrderThread /\ d \in Range(finished)

\* The payload thread t's count select returned to it.
CountOf(t) ==
    {call[r].value : r \in {r0 \in DOMAIN call :
        call[r0].thread = t /\ call[r0].query.sql = "COUNT_LIKE"
        /\ call[r0].outcome = "return"}}
MainCounted ==
    \E r \in DOMAIN call :
        call[r].query.sql = "COUNT_ALL" /\ call[r].outcome # "pending"

\* C9: in the test scenario, even when no call times out, every thread completes
\* all its calls without an exception, each thread's count is the number of its
\* inserts, and main's count of the whole table is threads times inserts.
C9_TestPasses ==
    TimedOutCalls = {} =>
        /\ \A t \in TestWorkers : ~ThreadRaised(t)
        /\ \A t \in TestWorkers :
              ThreadEnded(t) => CountOf(t) = {Payload("count", TestInserts)}
        /\ MainCounted =>
              \E r \in DOMAIN call :
                  /\ call[r].query.sql = "COUNT_ALL"
                  /\ call[r].outcome = "return"
                  /\ call[r].value = Payload("count", TestThreads * TestInserts)

\* C5: at most one operation is executing on the connection, the worker is the
\* only thread that ever executes a statement on it, and the other threads
\* reach the store only through requests: every row was written by a request
\* the worker executed.
C5_OnlyWorkerExecutes ==
    /\ executors \subseteq {"worker"}
    /\ worker = "executing" <=> operation # NoOperation
    /\ \A row \in table : row.src \in Range(finished)

\* Every result the worker has put so far: still queued, or taken by a call.
AllReplies == Range(result_queue) \cup {call[r].taken : r \in Answered}
\* The results of the inserts that were executed successfully.
InsertReplies ==
    {a \in AllReplies : a.rid \in GoodInserts /\ a.status = "success"}

\* C11: every executed insert replies with the identifier of the row it created;
\* the identifiers replied are distinct and increase in the order the inserts
\* were executed, whatever was deleted in between; and a row always carries the
\* identifier that was replied for it.
C11_IdentifiersIncrease ==
    /\ \A r \in GoodInserts \cap Range(finished) : \E a \in InsertReplies : a.rid = r
    /\ \A a \in InsertReplies : a.result.kind = "rowid" /\ a.result.n >= 1
    /\ \A a, b \in InsertReplies : a.rid < b.rid => a.result.n < b.result.n
    /\ \A row \in table :
          \E a \in InsertReplies : a.rid = row.src /\ a.result.n = row.id
C11_Witness ==
    \E a, b \in InsertReplies :
        /\ a.rid < b.rid
        /\ \E d \in (a.rid + 1)..(b.rid - 1) :
              /\ call[d].op_type = "delete" /\ call[d].query.id = a.result.n
              /\ d \in Range(finished)
        /\ \A row \in table : row.src # a.rid
        /\ \E row \in table : row.src = b.rid /\ row.id = b.result.n

\* The worker finishes the request it is executing in this step, and the result
\* it puts for it.
Executes == worker = "executing" /\ worker' # "executing"
NewReply == result_queue'[Len(result_queue')]

\* C12: an update or delete replies success with the number of rows it affected.
\* Deleting by an identifier that is in the table replies 1 and removes exactly
\* that row; deleting by an identifier that is not replies 0, still with status
\* success, and leaves the table as it was.
C12_WriteStep ==
    (Executes /\ operation.op_type \in {"update", "delete"}) =>
        LET q == operation.query
            byId == {row \in table : row.id = q.id}
            byUrl == {row \in table : Like(row.url, q.url[1])}
        IN  /\ result_queue' = Append(result_queue, NewReply)
            /\ NewReply.rid = operation.rid
            /\ NewReply.status = "success"
            /\ q.sql = "DELETE_ID" =>
                  /\ NewReply.result = Payload("rowcount", Cardinality(byId))
                  /\ Cardinality(byId) <= 1
                  /\ table' = table \ byId
            /\ q.sql = "UPDATE_LIKE" =>
                  /\ NewReply.result = Payload("rowcount", Cardinality(byUrl))
                  /\ table' \ table = {[row EXCEPT !.status = "completed"] : row \in byUrl} \ table
                  /\ table \ table' = {row \in byUrl : row.status # "completed"}
C12_AffectedRows == [][C12_WriteStep]_vars
C12_Witness ==
    \E a, b \in AllReplies :
        /\ call[a.rid].query.sql = "DELETE_ID" /\ call[b.rid].query.sql = "DELETE_ID"
        /\ a.status = "success" /\ a.result = Payload("rowcount", 1)
        /\ b.status = "success" /\ b.result = Payload("rowcount", 0)
        /\ a.rid < b.rid
        /\ call[a.rid].query.id = call[b.rid].query.id

\* A call of select_one(i) that returned, made right after an insert by the same
\* thread that returned the identifier i.
ReadsBack(r) ==
    /\ call[r].op_type = "select_one"
    /\ call[r].outcome = "return"
    /\ PrecedingCall(r) \in GoodInserts
    /\ call[PrecedingCall(r)].outcome = "return"
    /\ call[PrecedingCall(r)].value = Payload("rowid", call[r].query.id)

\* C13: round trip.  A select_one by the identifier an insert has just returned
\* returns the url, class and payload that were inserted; a select_one by an
\* identifier no row ever had returns the absent result; a select returns a set
\* of rows.
C13_RoundTrip ==
    \A r \in DOMAIN call :
        /\ ReadsBack(r) =>
              LET q == call[PrecedingCall(r)].query
              IN  call[r].value = RowsPayload("row", {<<q.url, q.print_type, q.qr_data>>})
        /\ (call[r].op_type = "select_one" /\ call[r].outcome = "return"
                /\ call[r].query.id > sequence)
              => call[r].value = NoPayload
        /\ (call[r].query.sql = "SELECT_HISTORY" /\ call[r].outcome = "return")
              => call[r].value.kind = "rows"

\* The same round trip, of the results the worker puts: a select_one replies the
\* row that has the identifier, or the absent result, and a select the whole list.
ReadStep ==
    (Executes /\ operation.op_type \in {"select", "select_one"}) =>
        LET q == operation.query
            hit == {row \in table : row.id = q.id}
        IN  /\ NewReply.rid = operation.rid
            /\ NewReply.status = "success"
            /\ table' = table
            /\ q.sql = "SELECT_ONE_ID" =>
                  NewReply.result =
                      IF hit = {} THEN NoPayload
                      ELSE RowsPayload("row", {ItemOf(row) : row \in hit})
            /\ q.sql = "SELECT_HISTORY" =>
                  NewReply.result = RowsPayload("rows", {ListedOf(row) : row \in table})
WorkerRoundTrip == [][ReadStep]_vars

\* C14 (P5): the init operation is idempotent: whenever the worker executes it,
\* first or again, with or without rows in the table, it replies success with
\* no payload, the job table exists afterwards (once), and its rows and its
\* identifier sequence are as before.
C14_InitStep ==
    (Executes /\ operation.op_type = "init_db") =>
        /\ result_queue' = Append(result_queue,
              [status |-> "success", result |-> NoPayload, rid |-> operation.rid])
        /\ tableExists'
        /\ table' = table
        /\ sequence' = sequence
C14_InitIdempotent == [][C14_InitStep]_vars
C14_Witness ==
    \E r \in Range(finished) : \E a \in AllReplies :
        /\ r > 1
        /\ call[r].op_type = "init_db"
        /\ a.rid = r /\ a.status = "success"
        /\ \E row \in table : row.src < r

\* C15: after close() has put the sentinel the worker eventually takes it and
\* terminates (which closes the connection).  It terminates only by taking the
\* sentinel from the head of the queue, so every request it executed was queued
\* ahead of it; once terminated it stays so, executes nothing, writes nothing
\* and puts no result, whatever is queued behind the sentinel.
C15_TakesSentinel ==
    (worker # "terminated" /\ worker' = "terminated") =>
        /\ closed
        /\ worker = "waiting"
        /\ Head(operation_queue) = Sentinel
        /\ operation_queue' = Tail(operation_queue)
C15_StaysTerminated ==
    worker = "terminated" =>
        /\ worker' = "terminated"
        /\ UNCHANGED <<storeVars, operation, started, finished>>
        /\ \/ result_queue' = result_queue
           \/ result_queue # <<>> /\ result_queue' = Tail(result_queue)
        /\ \E added \in {<<>>} \cup {<<op>> : op \in Range(operation_queue')} :
              operation_queue' = operation_queue \o added
C15_Shutdown ==
    /\ closed ~> (worker = "terminated")
    /\ [][C15_TakesSentinel]_vars
    /\ [][C15_StaysTerminated]_vars
C15_Witness ==
    /\ worker = "terminated"
    /\ operation_queue # <<>>
    /\ Len(finished) >= 2
    /\ \E r \in DOMAIN call : call[r].outcome = "timeout" /\ r \notin Range(finished)

\* Requests that write when executed.
Writes ==
    {r \in DOMAIN call : call[r].op_type \in {"insert", "update", "delete"}
                          /\ call[r].query.sql # "MALFORMED"}
\* Writes the worker completed although the call that issued them had given up.
StrayWrites == Writes \cap TimedOutCalls \cap Range(finished)

\* C19: the request of a call that timed out stays queued until the worker takes
\* it, the worker executes it, and over a whole run at most one completed write
\* is one whose issuing call timed out.
C19_OneStrayWrite ==
    /\ \A r \in TimedOutCalls :
          \/ r \in Range(finished)
          \/ worker = "executing" /\ operation.rid = r
          \/ \E i \in DOMAIN operation_queue : operation_queue[i].rid = r
    /\ Cardinality(StrayWrites) <= 1

\* C16: every job record the dispatcher creates gets exactly one terminal status
\* update: never more than one, and one when all the work started has been done.
DispatchQuiescent ==
    /\ operation_queue = <<>>
    /\ worker = "waiting"
    /\ ui.saving = NoRid
    /\ \A t \in Printers : job[t].state # "printing"
C16_OneTerminalUpdate ==
    /\ \A r \in table : Len(r.updates) <= 1
    /\ DispatchQuiescent => \A r \in table : Len(r.updates) = 1

\* C17: when the fetch+print thread of a scan is started, the record of that scan
\* is in the store with status 'processing'.
C17_StartStep ==
    \A t \in Printers :
        job[t].state = "none" /\ job'[t].state = "printing" /\ job'[t].scan # NoRid
            => \E r \in table : r.src = job'[t].scan /\ r.status = "processing"
C17_RecordBeforeThread == [][C17_StartStep]_vars

\* C18: the status of a record only goes from 'processing' to one terminal value,
\* and a terminal value is never changed again.
C18_StatusStep ==
    \A r \in table : \A r2 \in table' :
        r2.id = r.id =>
            IF r.status \in PrintOutcomes
            THEN r2.status = r.status
            ELSE r2.status \in PrintOutcomes \cup {r.status}
C18_StatusMonotone == [][C18_StatusStep]_vars

\* C20: a record is created only for a text that is prefix + separator + url with
\* a configured prefix (compared in lower case); for an empty text, a text
\* without the separator or an unknown prefix the scan creates no record, starts
\* no thread and leaves the store as it was.
Core(text) ==
    IF \A i \in DOMAIN text : text[i] = " " THEN <<>>
    ELSE LET a == CHOOSE i \in DOMAIN text :
                     text[i] # " " /\ \A j \in 1..(i - 1) : text[j] = " "
             b == CHOOSE i \in DOMAIN text :
                     text[i] # " " /\ \A j \in (i + 1)..Len(text) : text[j] = " "
         IN  SubSeq(text, a, b)
FirstSeparator(core) ==
    {i \in DOMAIN core : core[i] = ":" /\ \A j \in 1..(i - 1) : core[j] # ":"}
LowerCaseOf(a, b) ==
    /\ Len(a) = Len(b)
    /\ \A k \in DOMAIN a : b[k] = a[k] \/ (a[k] = "L" /\ b[k] = "l")
    /\ \A k \in DOMAIN b : b[k] # "L"
TypesOf(core) ==
    {id \in DOMAIN PrinterTypes :
        \E i \in FirstSeparator(core) :
            LowerCaseOf(SubSeq(core, 1, i - 1), PrinterTypes[id])}
ValidPayload(text) == TypesOf(Core(text)) # {}
Rejections == {"empty", "unknown_prefix", "invalid_format"}
C20_ScanStep ==
    LET core == Core(ui.entry)
    IN  /\ nreq' # nreq /\ call'[nreq'].op_type = "insert" =>
              /\ ValidPayload(ui.entry)
              /\ \E i \in FirstSeparator(core) : \E id \in TypesOf(core) :
                    call'[nreq'].query =
                        InsertJobQuery(SubSeq(core, i + 1, Len(core)), id, core)
        /\ ui.status = "ready" /\ ui'.status \in Rejections =>
              /\ ~ValidPayload(ui.entry)
              /\ ui'.status = "empty" <=> core = <<>>
              /\ ui'.status = "invalid_format" <=>
                    core # <<>> /\ FirstSeparator(core) = {}
              /\ UNCHANGED <<operation_queue, nreq, call, table, sequence, job>>
C20_OnlyValidStored ==
    ~ValidPayload(ui.entry) =>
        /\ table = {}
        /\ \A t \in Printers : job[t] = NoJob
        /\ \A r \in DOMAIN call : call[r].op_type # "insert"
C20_RecordOnlyForValidCode == [][C20_ScanStep]_vars /\ []C20_OnlyValidStored
C20_Witness ==
    /\ ui.entry = <<"L", ":", "x">>
    /\ \E r \in table :
          r.url = <<"x">> /\ r.print_type = "label" /\ r.qr_data = ui.entry
    /\ \E t \in Printers : job[t].state = "printing"
C20_RejectedWitness ==
    /\ ui.status = "unknown_prefix"
    /\ ui.entry = <<" ", ":", "x">>

\* C21: a row leaves the table only while the worker executes a delete of the
\* interactive thread, DELETE ... WHERE id = (that row's id) of delete_selected
\* or the DELETE of every row of clear_history; every other step keeps every row
\* and changes none of its id, url, print_type, qr_data and timestamp.
C21_FrameStep ==
    \A r \in table :
        LET kept == {r2 \in table' : r2.id = r.id}
        IN  IF kept = {}
            THEN /\ worker = "executing"
                 /\ operation.thread = Main
                 /\ operation.op_type = "delete"
                 /\ \/ operation.query.sql = "DELETE_ID" /\ operation.query.id = r.id
                    \/ operation.query.sql = "DELETE_ALL"
            ELSE \A r2 \in kept :
                    /\ r2.url = r.url
                    /\ r2.print_type = r.print_type
                    /\ r2.qr_data = r.qr_data
                    /\ r2.timestamp = r.timestamp
                    /\ r2.src = r.src
C21_RowsLeaveByDeleteOnly == [][C21_FrameStep]_vars
C21_Witness ==
    /\ table = {}
    /\ job[HistoryPrinter].state = "none"
    /\ \E r \in DOMAIN call :
          /\ call[r].query.sql = "DELETE_ID"
          /\ call[r].outcome = "return"
          /\ call[r].taken.rid = r
          /\ call[r].value = Payload("rowcount", 1)
    /\ \E r \in DOMAIN call :
          /\ call[r].query.sql = "UPDATE_STATUS"
          /\ call[r].value = Payload("rowcount", 1)

\* C22: a request enqueued after the shutdown sentinel is never executed and
\* changes nothing, and the call that submitted it ends with a timeout, never
\* with a result.
\* The requests behind the sentinel: the worker leaves its loop at the sentinel,
\* so they are the ones after it on the queue and, once the worker has
\* terminated, all that are on the queue.
AfterSentinelRids ==
    IF worker = "terminated"
    THEN {operation_queue[k].rid : k \in DOMAIN operation_queue}
    ELSE {operation_queue[k].rid : k \in {j \in DOMAIN operation_queue :
              \E i \in 1..(j - 1) : operation_queue[i] = Sentinel}}
C22_LateCallTimesOut ==
    \A r \in AfterSentinelRids :
        /\ \A k \in DOMAIN started : started[k] # r
        /\ call[r].outcome \in {"pending", "timeout"}
\* The part of it that holds: what is behind the sentinel stays there and the
\* store is not touched once the worker has terminated.
LateNeverExecuted ==
    [][worker = "terminated" =>
          /\ worker' = "terminated"
          /\ UNCHANGED <<storeVars, started, finished>>
          /\ \A k \in DOMAIN operation_queue : operation_queue'[k] = operation_queue[k]]_vars

\* C23: the status update of a job changes the record created for that job (the
\* row inserted by the scan the job's thread was started for) and no other row,
\* and one update changes at most one row.
C23_UpdateStep ==
    worker = "executing" /\ worker' # "executing"
        /\ operation.query.sql = "UPDATE_STATUS"
        /\ job[operation.thread].scan # NoRid
    => LET changed == {r \in table : r \notin table'}
       IN  /\ Cardinality(changed) <= 1
           /\ \A r \in changed : r.src = job[operation.thread].scan
C23_UpdateHitsOwnRecord == [][C23_UpdateStep]_vars
\* The part of it that holds: one update changes at most one row.
UpdateChangesOneRow ==
    [][worker = "executing" /\ operation.query.sql = "UPDATE_STATUS"
          => Cardinality({r \in table : r \notin table'}) <= 1]_vars

\* C24: every record created with status 'processing' eventually holds a
\* terminal status, when every thread runs on and the worker is not shut down.
C24_EveryRecordFinishes ==
    \A i \in StoreIds :
        (\E r \in table : r.id = i /\ r.status = "processing")
            ~> (\E r \in table : r.id = i /\ r.status \in PrintOutcomes)

\* C25: a run of download_and_print issues exactly one status update call: never
\* two, and one when the run has ended.
UpdateCalls(t) ==
    {r \in DOMAIN call : call[r].thread = t /\ call[r].op_type = "update"}
C25_OneUpdatePerRun ==
    \A t \in Printers :
        /\ Cardinality(UpdateCalls(t)) <= 1
        /\ job[t].state \in {"done", "died"} => Cardinality(UpdateCalls(t)) = 1

\* C26: the worker puts exactly one result, 'success' or 'error', for every
\* request it has executed: the results produced so far (those on the reply
\* queue and those calls have taken) are one per finished request, and there
\* are as many of them as finished requests.
TakenBy == {r \in DOMAIN call : call[r].taken # NoResult}
ResultsFor(rid) ==
    Cardinality({k \in DOMAIN result_queue : result_queue[k].rid = rid})
        + Cardinality({r \in TakenBy : call[r].taken.rid = rid})
C26_OneResultPerRequest ==
    /\ Len(result_queue) + Cardinality(TakenBy) = Len(finished)
    /\ \A k \in DOMAIN finished : ResultsFor(finished[k]) = 1
    /\ \A k \in DOMAIN result_queue : result_queue[k].status \in {"success", "error"}
    /\ \A r \in TakenBy : call[r].taken.status \in {"success", "error"}
C26_Witness ==
    /\ Len(finished) >= 3
    /\ \E r \in TakenBy : call[r].taken.status = "error"
    /\ \E k \in DOMAIN result_queue : result_queue[k].status = "success"

\* C27: with one calling thread, one call after another, and no call timed out
\* so far, every call that ended did so on the result of its own request, and
\* when no call is in progress the operation queue and the reply queue are empty.
C27_SequentialCalls ==
    TimedOutCalls = {} =>
        /\ \A r \in Answered : call[r].taken.rid = r
        /\ pc[Main] = "idle" => operation_queue = <<>> /\ result_queue = <<>>
C27_Witness ==
    /\ TimedOutCalls = {}
    /\ pc[Main] = "idle"
    /\ Cardinality(Answered) = MaxStoreCalls + 1
    /\ \E r \in Answered : call[r].op_type = "select_one" /\ call[r].value.kind = "row"

\* C28: the init request is the first request the worker executes and no other
\* request is executed before the table has been ensured; nothing else is
\* enqueued while the constructor waits for it, and there is a manager only when
\* the init call returned: when it raised (error or timeout) the constructor
\* raised and no call is ever made.
C28_InitFirst ==
    /\ call[1].op_type = "init_db"
    /\ started # <<>> => started[1] = 1
    /\ \A k \in DOMAIN finished :
          finished[k] # 1 => k > 1 /\ finished[1] = 1 /\ tableExists
    /\ manager = "constructing" => nreq = 1 /\ call[1].outcome = "pending"
    /\ manager = "ready" => call[1].outcome = "return"
    /\ manager = "failed" => nreq = 1 /\ call[1].outcome \in {"timeout", "dberror"}
C28_Witness ==
    /\ manager = "ready"
    /\ Len(finished) >= 3
    /\ table # {}

\* C29: every request enqueued before the shutdown sentinel is executed, and its
\* result produced, before the worker terminates; close() only appends the
\* sentinel, whatever the worker is doing, and removes no queued request.
\* Stated as: no request is ever lost (it is queued, being executed, or
\* finished with its one result), the worker terminates only with the sentinel
\* at the head of the queue, so with nothing left ahead of it, and the step of
\* close() changes nothing but the end of the queue.
OnQueue == {operation_queue[k].rid : k \in DOMAIN operation_queue} \ {NoRid}
C29_NothingLost ==
    \A r \in DOMAIN call :
        \/ r \in OnQueue /\ r \notin Range(finished) /\ operation.rid # r
        \/ operation.rid = r /\ worker = "executing" /\ r \notin Range(finished)
        \/ r \in Range(finished) /\ ResultsFor(r) = 1 /\ r \notin OnQueue
C29_TerminateStep ==
    worker # "terminated" /\ worker' = "terminated" =>
        /\ operation_queue # <<>>
        /\ operation_queue[1] = Sentinel
        /\ operation_queue' = Tail(operation_queue)
        /\ worker = "waiting"
C29_CloseStep ==
    ~closed /\ closed' =>
        /\ operation_queue' = Append(operation_queue, Sentinel)
        /\ UNCHANGED <<result_queue, storeVars, workerVars, callerVars>>
C29_DrainedBeforeExit ==
    /\ []C29_NothingLost
    /\ [][C29_TerminateStep]_vars
    /\ [][C29_CloseStep]_vars
C29_Witness ==
    /\ worker = "terminated"
    /\ Len(finished) = MaxCalls
    /\ \E r \in Range(finished) : call[r].outcome = "pending"

\* C30: with the operation queue empty the worker's wait ends by timeout and it
\* is waiting again: such a step puts no result, leaves the store alone and
\* does not end the worker; and the wait is the only place where the worker
\* blocks: while it executes a request its next step is always possible.
C30_IdleStep ==
    worker = "waiting" /\ operation_queue = <<>> =>
        /\ worker' = "waiting"
        /\ UNCHANGED <<storeVars, operation, started, finished, executors>>
        /\ \/ result_queue' = result_queue
           \/ result_queue # <<>> /\ result_queue' = Tail(result_queue)
C30_NeverStuck ==
    /\ worker = "executing" => ENABLED WorkerExecute
    /\ worker = "waiting" => ENABLED (WorkerGet \/ WorkerPoll)
    /\ worker = "waiting" /\ operation_queue = <<>> => ENABLED WorkerPoll
C30_IdlePoll == [][C30_IdleStep]_vars /\ []C30_NeverStuck
C30_Witness ==
    /\ worker = "waiting"
    /\ operation_queue = <<>>
    /\ Len(finished) >= 2
    /\ \E t \in Callers : pc[t] = "waiting"

\* C31: when refresh_history ends on a select call that returned, the history
\* on display is the result of that select, which the worker executed after
\* every request enqueued before it: the call returned on the reply produced
\* for its own request, the tree holds the rows of that reply, and every
\* earlier request was finished first.
FinishedBefore(r1, r2) ==
    \E i, j \in DOMAIN finished : i < j /\ finished[i] = r1 /\ finished[j] = r2
C31_RefreshStep ==
    HandlerCallEnded("refreshing") /\ ui'.reading = NoRid
            /\ call[ui.reading].outcome = "return" =>
        LET rid == ui.reading
        IN  /\ call[rid].taken.rid = rid
            /\ call[rid].taken.result.kind = "rows"
            /\ TreeRows(call[rid]) = call[rid].taken.result.rows
            /\ \A r \in 1..(rid - 1) : FinishedBefore(r, rid)
C31_DisplayIsOwnSelect == [][C31_RefreshStep]_vars

\* C32: the configuration always holds at least one printer type, and a call of
\* remove_printer_type returns False and leaves the printer types as they were
\* when the type is unknown or is the only one, and otherwise removes that
\* type, keeps every other type as it was and returns True.
C32_AtLeastOne == Cardinality(DOMAIN ui.printer_types) >= 1
C32_RemoveStep ==
    ui'.last.name = "remove_printer_type" /\ ui' # ui =>
        LET id == ui'.last.type_id
            types == ui.printer_types
        IN  IF id \notin DOMAIN types \/ Cardinality(DOMAIN types) = 1
            THEN /\ ui'.last.returned = "False"
                 /\ ui'.printer_types = types
            ELSE /\ ui'.last.returned = "True"
                 /\ DOMAIN ui'.printer_types = DOMAIN types \ {id}
                 /\ \A j \in DOMAIN ui'.printer_types :
                        ui'.printer_types[j] = types[j]
C32_NeverEmpty == []C32_AtLeastOne /\ [][C32_RemoveStep]_vars
C32_Witness ==
    /\ Cardinality(DOMAIN ui.printer_types) = 1
    /\ ui.last.name = "remove_printer_type"
    /\ ui.last.returned = "False"
    /\ ui.last.type_id \in DOMAIN ui.printer_types

\* C33: at most one status reset is pending, and it is the one status_timer
\* names; a call of update_status leaves no reset pending that was pending
\* before it and arms a new one exactly when it was asked to reset a red or
\* orange message; a reset that fires leaves Ready in blue, no handle and
\* nothing pending.
C33_AtMostOne ==
    /\ Cardinality(ui.timers) <= 1
    /\ ui.timers = IF ui.status_timer = NoTimer THEN {} ELSE {ui.status_timer}
C33_StatusStep ==
    /\ ui'.last.name = "update_status" /\ ui' # ui =>
          /\ ui.timers \cap ui'.timers = {}
          /\ ui'.timers # {} <=>
                ui'.last.auto_reset /\ ui'.color \in {"red", "orange"}
          /\ ui'.timers # {} =>
                ui'.status_timer = ui.nafter + 1 /\ ui'.timers = {ui'.status_timer}
    /\ ui'.last.name = "_reset_status_to_ready" /\ ui' # ui =>
          /\ ui.timers # {}
          /\ ui'.timers = {}
          /\ ui'.status_timer = NoTimer
          /\ ui'.status = "ready"
          /\ ui'.color = "blue"
C33_OneTimer == []C33_AtMostOne /\ [][C33_StatusStep]_vars
C33_Witness ==
    /\ ui.nafter >= 2
    /\ ui.timers = {ui.nafter}
    /\ ui.last.name = "update_status"
    /\ ui.last.auto_reset
    /\ ui.color = "red"

====
